---------------------------- MODULE Spec2Model ----------------------------
(***************************************************************************)
(* A model of webargs/aiohttpparser.py: the aiohttp binding of webargs.     *)
(*                                                                         *)
(* Three specifications share the variables below.                         *)
(*   Spec     requests handled concurrently by the module-level `parser`:   *)
(*            each request is one task that retrieves fields one after the  *)
(*            other; a task is suspended only at `await req.post()` and     *)
(*            `await req.json()`.                                           *)
(*   SpecErr  the import-time registration loop _find_exceptions followed   *)
(*            by calls of AIOHTTPParser.handle_error.                       *)
(*   SpecSolo the requests of Spec, handled one at a time.                  *)
(***************************************************************************)
EXTENDS Integers, Sequences, FiniteSets, TLC

VARIABLES
    req,            \* the requests: content_type, body_exists, body text
    cache,          \* parser._cache, the dict of the module-level parser
    pc,             \* per request task: where the task stands
    arg,            \* per request task: the field name of the call in progress
    calls,          \* per request task: field retrievals started so far
    ret,            \* the field retrieval that ended last: its task and outcome
    postAwaits,     \* per request: times req.post() was awaited
    jsonAwaits,     \* per request: times req.json() was awaited
    all_,           \* web_exceptions.__all__, in the framework's order
    idx,            \* position of the for loop of _find_exceptions
    exception_map,  \* status code -> exception class
    raised          \* what the last handle_error call raised

vars == <<req, cache, pc, arg, calls, ret, postAwaits, jsonAwaits,
          all_, idx, exception_map, raised>>

parseVars == <<req, cache, pc, arg, calls, ret, postAwaits, jsonAwaits>>

errVars == <<all_, idx, exception_map, raised>>

(***************************************************************************)
(* Bounds                                                                  *)
(***************************************************************************)
\* Field retrievals one request performs (the fields of its schema).
MaxFields == 2

\* The requests in flight together.
Requests == {"A", "B"}

\* The field names a schema asks for; the bodies below carry only "x".
Names == {"x", "y"}

(***************************************************************************)
(* Values                                                                  *)
(***************************************************************************)
\* Python's None.
None == [tag |-> "None"]

\* core.missing, the sentinel of the parsing core.
missing == [tag |-> "missing"]

\* A key-value container read from request `r` at location `loc`.
Container(r, loc) == [tag |-> "dict", owner |-> r, loc |-> loc, keys |-> {"x"}]

\* The value stored under `name` in a container.
ValueOf(data, name) ==
    [tag |-> "value", owner |-> data.owner, loc |-> data.loc, name |-> name]

\* core.get_value: the named entry of a key-value container, or the
\* sentinel when the container has no such entry or is no container.
get_value(data, name) ==
    IF data.tag = "dict" /\ name \in data.keys
    THEN ValueOf(data, name)
    ELSE missing

\* core.is_json: application/json and the +json suffix types.
is_json(content_type) ==
    content_type \in {"application/json", "application/vnd.api+json"}

\* is_json_request(req)
is_json_request(r) == is_json(req[r].content_type)

\* dict.get(key) with its default None.
CacheGet(c, key) == IF key \in DOMAIN c THEN c[key] ELSE None

\* dict[key] = value
CacheSet(c, key, value) ==
    [k \in (DOMAIN c) \cup {key} |-> IF k = key THEN value ELSE c[k]]

\* The empty dict.
EmptyCache == [k \in {} |-> None]

(***************************************************************************)
(* The framework's request                                                 *)
(***************************************************************************)
ContentTypes == {"application/json", "application/x-www-form-urlencoded"}

\* Body texts: empty, JSON null, a JSON object, a malformed document.
Bodies == {"", "null", "{\"x\": 1}", "{"}

\* A request without a body stream has an empty body text.
RequestShapes ==
    {q \in [content_type : ContentTypes, body_exists : BOOLEAN, body : Bodies] :
        ~q.body_exists => q.body = ""}

\* await req.json(): json.loads of the body text.  Either the decoded
\* value or the JSONDecodeError, which carries the document in `doc`.
ReqJson(r) ==
    CASE req[r].body = "{\"x\": 1}" ->
            [ok |-> TRUE, value |-> Container(r, "json"), doc |-> req[r].body]
      [] req[r].body = "null" ->
            [ok |-> TRUE, value |-> None, doc |-> req[r].body]
      [] OTHER ->
            [ok |-> FALSE, value |-> None, doc |-> req[r].body]

\* await req.post(): the form fields, a MultiDictProxy (never None).
ReqPost(r) == Container(r, "form")

(***************************************************************************)
(* Outcomes of a field retrieval                                           *)
(***************************************************************************)
\* `reads` names the request attributes the retrieval read.
NoRet ==
    [task |-> "", method |-> "", name |-> "", outcome |-> "none", value |-> None,
     exc |-> "", reads |-> {}]

Returned(method, name, v, attrs) ==
    [method |-> method, name |-> name, outcome |-> "return", value |-> v,
     exc |-> "", reads |-> attrs]

Raised(method, name, exc, attrs) ==
    [method |-> method, name |-> name, outcome |-> "raise", value |-> None,
     exc |-> exc, reads |-> attrs]

\* A task may start its next field retrieval.
CanCall(r) == pc[r] = "idle" /\ calls[r] < MaxFields

\* The end of a field retrieval of request r's task with outcome `out`:
\* a raised exception leaves the task's retrieval loop.
EndCall(r, out) ==
    /\ ret' = [task |-> r] @@ out
    /\ arg' = [arg EXCEPT ![r] = ""]
    /\ pc' = [pc EXCEPT ![r] = IF out.outcome = "raise" THEN "raised" ELSE "idle"]

\* The suspension of request r's task at an await, inside a call for `name`.
Await(r, at, name) ==
    /\ pc' = [pc EXCEPT ![r] = at]
    /\ arg' = [arg EXCEPT ![r] = name]
    /\ UNCHANGED ret

\* A synchronous lookup in one of the request's own containers.
SyncLookup(r, method, attr, name) ==
    /\ CanCall(r)
    /\ calls' = [calls EXCEPT ![r] = @ + 1]
    /\ EndCall(r, Returned(method, name, get_value(Container(r, attr), name), {attr}))
    /\ UNCHANGED <<req, cache, postAwaits, jsonAwaits>>
    /\ UNCHANGED errVars

(***************************************************************************)
(* AIOHTTPParser                                                           *)
(***************************************************************************)
parse_querystring(r, name) == SyncLookup(r, "parse_querystring", "query", name)

parse_headers(r, name) == SyncLookup(r, "parse_headers", "headers", name)

parse_cookies(r, name) == SyncLookup(r, "parse_cookies", "cookies", name)

parse_match_info(r, name) == SyncLookup(r, "parse_match_info", "match_info", name)

\* parse_form up to its await: the cache lookup, then either the await of
\* req.post() or, on a hit, the return of the cached container's entry.
parse_form(r, name) ==
    /\ CanCall(r)
    /\ calls' = [calls EXCEPT ![r] = @ + 1]
    /\ IF CacheGet(cache, "post") = None
       THEN /\ Await(r, "await_post", name)
            /\ postAwaits' = [postAwaits EXCEPT ![r] = @ + 1]
       ELSE /\ EndCall(r, Returned("parse_form", name, get_value(cache["post"], name), {}))
            /\ UNCHANGED postAwaits
    /\ UNCHANGED <<req, cache, jsonAwaits>>
    /\ UNCHANGED errVars

\* parse_form from its await on: the result is stored under "post" and
\* the entry is taken from the cache.
parse_form_resume(r) ==
    /\ pc[r] = "await_post"
    /\ cache' = CacheSet(cache, "post", ReqPost(r))
    /\ EndCall(r, Returned("parse_form", arg[r],
                           get_value(cache'["post"], arg[r]), {"post"}))
    /\ UNCHANGED <<req, calls, postAwaits, jsonAwaits>>
    /\ UNCHANGED errVars

\* What parse_json reads of the request before it decides to decode:
\* body_exists, and content_type only when body_exists is true.
JsonGuardReads(r) ==
    IF req[r].body_exists THEN {"body_exists", "content_type"} ELSE {"body_exists"}

\* What a parse_json that decodes the body reads of the request.
JsonReads(r) == JsonGuardReads(r) \cup {"json"}

\* parse_json up to its await.
parse_json(r, name) ==
    /\ CanCall(r)
    /\ calls' = [calls EXCEPT ![r] = @ + 1]
    /\ LET json_data == CacheGet(cache, "json") IN
       IF json_data = None
       THEN IF ~(req[r].body_exists /\ is_json_request(r))
            THEN /\ EndCall(r, Returned("parse_json", name, missing, JsonGuardReads(r)))
                 /\ UNCHANGED jsonAwaits
            ELSE /\ Await(r, "await_json", name)
                 /\ jsonAwaits' = [jsonAwaits EXCEPT ![r] = @ + 1]
       ELSE /\ EndCall(r, Returned("parse_json", name, get_value(json_data, name), {}))
            /\ UNCHANGED jsonAwaits
    /\ UNCHANGED <<req, cache, postAwaits>>
    /\ UNCHANGED errVars

\* parse_json from its await on: a JSONDecodeError of the empty document
\* gives the sentinel, any other one is raised again; a decoded value is
\* stored under "json" and the entry is taken from it.
parse_json_resume(r) ==
    /\ pc[r] = "await_json"
    /\ LET res == ReqJson(r) IN
       IF ~res.ok
       THEN /\ IF res.doc = ""
               THEN EndCall(r, Returned("parse_json", arg[r], missing, JsonReads(r)))
               ELSE EndCall(r, Raised("parse_json", arg[r], "JSONDecodeError",
                                      JsonReads(r)))
            /\ UNCHANGED cache
       ELSE /\ cache' = CacheSet(cache, "json", res.value)
            /\ EndCall(r, Returned("parse_json", arg[r],
                                 get_value(res.value, arg[r]), JsonReads(r)))
    /\ UNCHANGED <<req, calls, postAwaits, jsonAwaits>>
    /\ UNCHANGED errVars

\* A parse_files that looks the field up in the form data.
parse_files_from_form(r, name) ==
    /\ CanCall(r)
    /\ calls' = [calls EXCEPT ![r] = @ + 1]
    /\ cache' = CacheSet(cache, "post", ReqPost(r))
    /\ EndCall(r, Returned("parse_files", name,
                           get_value(cache'["post"], name), {"post"}))
    /\ UNCHANGED <<req, postAwaits, jsonAwaits>>
    /\ UNCHANGED errVars

\* parse_files: raises NotImplementedError.
parse_files(r, name) ==
    /\ CanCall(r)
    /\ calls' = [calls EXCEPT ![r] = @ + 1]
    /\ EndCall(r, Raised("parse_files", name, "NotImplementedError", {}))
    /\ UNCHANGED <<req, cache, postAwaits, jsonAwaits>>
    /\ UNCHANGED errVars

\* The end of a request's processing, after its last field or after an
\* exception left the retrieval loop: the parser's cache is emptied.
clear_cache(r) ==
    /\ pc[r] \in {"idle", "raised"}
    /\ pc' = [pc EXCEPT ![r] = "done"]
    /\ calls' = [calls EXCEPT ![r] = 0]
    /\ cache' = EmptyCache
    /\ UNCHANGED <<req, arg, ret, postAwaits, jsonAwaits>>
    /\ UNCHANGED errVars

(***************************************************************************)
(* The framework's exception classes                                       *)
(***************************************************************************)
Class(name) == [tag |-> "class", name |-> name]

Num(v) == [tag |-> "int", v |-> v]

\* The class defined by this module, registered before the loop runs.
HTTPUnprocessableEntity == Class("HTTPUnprocessableEntity")

\* The base class each class is derived from.
Parent(name) ==
    CASE name = "HTTPException" -> "Response"
      [] name = "HTTPError" -> "HTTPException"
      [] name = "HTTPClientError" -> "HTTPError"
      [] name = "HTTPGone" -> "HTTPClientError"
      [] name = "HTTPGoneForever" -> "HTTPGone"
      [] name = "HTTPLegacyGone" -> "HTTPClientError"
      [] name = "web_exceptions.HTTPUnprocessableEntity" -> "HTTPClientError"
      [] name = "HTTPUnprocessableEntity" -> "HTTPClientError"
      [] OTHER -> "object"

\* The status_code a class body sets itself, None when it sets none.
OwnStatusCode(name) ==
    CASE name = "HTTPGone" -> Num(410)
      [] name = "HTTPLegacyGone" -> Num(410)
      [] name = "web_exceptions.HTTPUnprocessableEntity" -> Num(422)
      [] name = "HTTPUnprocessableEntity" -> Num(422)
      [] OTHER -> None

RECURSIVE StatusCodeOf(_)
\* obj.status_code: the attribute, looked up along the base classes.
StatusCodeOf(name) ==
    IF OwnStatusCode(name) # None THEN OwnStatusCode(name)
    ELSE IF Parent(name) = "object" THEN None
    ELSE StatusCodeOf(Parent(name))

RECURSIVE SubclassName(_, _)
\* issubclass on class names: reflexive, and along the base classes.
SubclassName(a, b) ==
    \/ a = b
    \/ /\ Parent(a) # "object"
       /\ SubclassName(Parent(a), b)

\* issubclass(obj, cls); a TypeError (obj is no class) counts as False.
issubclass(obj, cls) == obj.tag = "class" /\ SubclassName(obj.name, cls.name)

\* The names web_exceptions.__all__ exports: classes without a status
\* code, classes sharing one (related and unrelated), and a non-class.
Exported ==
    {Class("HTTPException"), Class("HTTPGone"),
     Class("HTTPGoneForever"), Class("HTTPLegacyGone"),
     Class("web_exceptions.HTTPUnprocessableEntity"),
     [tag |-> "function", name |-> "json_response"]}

\* Every order in which the framework may list them.
Orders ==
    {s \in [1..Cardinality(Exported) -> Exported] :
        \A i, j \in DOMAIN s : i # j => s[i] # s[j]}

\* exception_map.get(code, None)
MapGet(m, code) == IF code \in DOMAIN m THEN m[code] ELSE None

\* exception_map[code] = obj
MapSet(m, code, obj) ==
    [c \in (DOMAIN m) \cup {code} |-> IF c = code THEN obj ELSE m[c]]

\* The loop has gone through all of __all__.
Registered == idx > Len(all_)

\* A loop body that registers a class only over an existing entry.
find_exceptions_keep_known ==
    /\ ~Registered
    /\ LET obj == all_[idx]
           is_http_exception == issubclass(obj, Class("HTTPException"))
       IN  IF ~is_http_exception \/ StatusCodeOf(obj.name) = None
           THEN UNCHANGED exception_map
           ELSE LET code == StatusCodeOf(obj.name).v
                    old_obj == MapGet(exception_map, code)
                IN  IF old_obj = None \/ issubclass(obj, old_obj)
                    THEN UNCHANGED exception_map
                    ELSE exception_map' = MapSet(exception_map, code, obj)
    /\ idx' = idx + 1
    /\ UNCHANGED <<all_, raised>>
    /\ UNCHANGED parseVars

\* One iteration of the loop of _find_exceptions.
find_exceptions ==
    /\ ~Registered
    /\ LET obj == all_[idx]
           is_http_exception == issubclass(obj, Class("HTTPException"))
       IN  IF ~is_http_exception \/ StatusCodeOf(obj.name) = None
           THEN UNCHANGED exception_map
           ELSE LET code == StatusCodeOf(obj.name).v
                    old_obj == MapGet(exception_map, code)
                IN  IF old_obj # None /\ issubclass(obj, old_obj)
                    THEN UNCHANGED exception_map
                    ELSE exception_map' = MapSet(exception_map, code, obj)
    /\ idx' = idx + 1
    /\ UNCHANGED <<all_, raised>>
    /\ UNCHANGED parseVars

(***************************************************************************)
(* handle_error                                                            *)
(***************************************************************************)
\* Parser.DEFAULT_VALIDATION_STATUS
DEFAULT_VALIDATION_STATUS == 422

\* error.messages of the validation failures: field name -> messages, as
\* the sequence of the dict's items.
MessageDicts ==
    {<< >>,
     << <<"name", <<"Missing data for required field.">> >> >>,
     << <<"age", <<"Not a valid integer.", "Too small.">> >>,
        <<"name", <<"Too long.">> >> >>}

\* A validation failure: its messages, and whether the object carries a
\* status_code attribute of its own.
Errors == [messages : MessageDicts, has_status_code : BOOLEAN]

\* error_status_code: not given, 0, registered codes, unregistered codes.
StatusArgs == {None, Num(0), Num(410), Num(422), Num(499)}

\* error_headers
HeaderArgs == {None, [tag |-> "dict", name |-> "X-Error"]}

RECURSIVE JoinWith(_, _)
\* sep.join(parts)
JoinWith(parts, sep) ==
    IF Len(parts) = 0 THEN ""
    ELSE IF Len(parts) = 1 THEN parts[1]
    ELSE parts[1] \o sep \o JoinWith(Tail(parts), sep)

\* json.dumps of a string without characters to escape.
DumpStr(s) == "\"" \o s \o "\""

\* json.dumps of a list of strings.
DumpList(l) == "[" \o JoinWith([i \in DOMAIN l |-> DumpStr(l[i])], ", ") \o "]"

\* json.dumps of error.messages, with the default separators.
JsonDumps(items) ==
    "{" \o JoinWith([i \in DOMAIN items |->
                        DumpStr(items[i][1]) \o ": " \o DumpList(items[i][2])], ", ")
        \o "}"

\* str.encode("utf-8") of an ASCII text.
Utf8Encode(text) == [tag |-> "bytes", data |-> text]

\* x or y, for an int or None x.
OrElse(x, y) == IF x = None \/ x.v = 0 THEN y ELSE x.v

NoRaise ==
    [exc |-> "", status |-> 0, body |-> None, headers |-> None,
     content_type |-> "", error |-> None, error_status_code |-> None,
     error_headers |-> None]

\* error_class(body=..., headers=..., content_type=...): the response the
\* framework builds has the status code of its class.
NewHTTPException(error_class, body, headers, content_type) ==
    [exc |-> error_class.name, status |-> StatusCodeOf(error_class.name).v,
     body |-> body, headers |-> headers, content_type |-> content_type]

\* What a call raises, with the arguments it was called with.
WithCall(r, error, error_status_code, error_headers) ==
    [exc |-> r.exc, status |-> r.status, body |-> r.body, headers |-> r.headers,
     content_type |-> r.content_type, error |-> error,
     error_status_code |-> error_status_code, error_headers |-> error_headers]

Failure(exc) ==
    [exc |-> exc, status |-> 0, body |-> None, headers |-> None, content_type |-> ""]

\* A handle_error that looks up the default status whatever it is given.
handle_error_default_status(error, error_status_code, error_headers) ==
    /\ Registered
    /\ LET error_class == MapGet(exception_map, DEFAULT_VALIDATION_STATUS) IN
       raised' =
         IF error_class = None
         THEN WithCall(Failure("LookupError"), error, error_status_code, error_headers)
         ELSE WithCall(NewHTTPException(error_class,
                                        Utf8Encode(JsonDumps(error.messages)),
                                        error_headers, "application/json"),
                       error, error_status_code, error_headers)
    /\ UNCHANGED <<all_, idx, exception_map>>
    /\ UNCHANGED parseVars

\* handle_error(error, req, schema, error_status_code, error_headers)
handle_error(error, error_status_code, error_headers) ==
    /\ Registered
    /\ LET error_class ==
             MapGet(exception_map,
                    OrElse(error_status_code, DEFAULT_VALIDATION_STATUS))
       IN
       raised' =
         IF error_class = None
         THEN IF error.has_status_code
              THEN WithCall(Failure("LookupError"), error, error_status_code, error_headers)
              ELSE WithCall(Failure("AttributeError"), error, error_status_code, error_headers)
         ELSE WithCall(NewHTTPException(error_class,
                                        Utf8Encode(JsonDumps(error.messages)),
                                        error_headers, "application/json"),
                       error, error_status_code, error_headers)
    /\ UNCHANGED <<all_, idx, exception_map>>
    /\ UNCHANGED parseVars

(***************************************************************************)
(* Specifications                                                          *)
(***************************************************************************)
InitParser ==
    /\ cache = EmptyCache
    /\ pc = [r \in Requests |-> "idle"]
    /\ arg = [r \in Requests |-> ""]
    /\ calls = [r \in Requests |-> 0]
    /\ ret = NoRet
    /\ postAwaits = [r \in Requests |-> 0]
    /\ jsonAwaits = [r \in Requests |-> 0]

InitModule ==
    /\ idx = 1
    /\ exception_map = MapSet([c \in {} |-> None], 422, HTTPUnprocessableEntity)
    /\ raised = NoRaise

\* Requests arrive at a module that is already imported.
Init ==
    /\ req \in [Requests -> RequestShapes]
    /\ InitParser
    /\ all_ = << >>
    /\ InitModule

Next ==
    \E r \in Requests :
        \/ \E name \in Names :
              \/ parse_querystring(r, name)
              \/ parse_headers(r, name)
              \/ parse_cookies(r, name)
              \/ parse_match_info(r, name)
              \/ parse_form(r, name)
              \/ parse_json(r, name)
              \/ parse_files(r, name)
        \/ parse_form_resume(r)
        \/ parse_json_resume(r)
        \/ clear_cache(r)

Spec == Init /\ [][Next]_vars

\* The import of the module, for every order of web_exceptions.__all__.
InitErr ==
    /\ req = [r \in Requests |->
                [content_type |-> "application/json", body_exists |-> FALSE, body |-> ""]]
    /\ InitParser
    /\ all_ \in Orders
    /\ InitModule

NextErr ==
    \/ find_exceptions
    \/ \E error \in Errors, error_status_code \in StatusArgs,
          error_headers \in HeaderArgs :
            handle_error(error, error_status_code, error_headers)

SpecErr == InitErr /\ [][NextErr]_vars

\* One request handled while no other request is in flight.
NextSolo ==
    \E r \in Requests :
        /\ \A other \in Requests \ {r} : pc[other] = "idle" /\ calls[other] = 0
        /\ \/ \E name \in Names :
                 \/ parse_querystring(r, name)
                 \/ parse_headers(r, name)
                 \/ parse_cookies(r, name)
                 \/ parse_match_info(r, name)
                 \/ parse_form(r, name)
                 \/ parse_json(r, name)
                 \/ parse_files(r, name)
           \/ parse_form_resume(r)
           \/ parse_json_resume(r)
           \/ clear_cache(r)

SpecSolo == Init /\ [][NextSolo]_vars

(***************************************************************************)
(* Claims                                                                  *)
(***************************************************************************)
\* A step in which request r's task starts a field retrieval and the
\* retrieval ends in the same step as a call of `method`.
EndsAtOnce(r, method) ==
    /\ calls'[r] = calls[r] + 1
    /\ pc'[r] \in {"idle", "raised"}
    /\ ret'.task = r
    /\ ret'.method = method

\* C1: every value parse_form or parse_json returns for a request was
\* extracted from that request's own form or JSON body, never from body
\* data cached while another request was processed.
C1_ValuesFromOwnRequest ==
    (/\ ret.method \in {"parse_form", "parse_json"}
     /\ ret.outcome = "return"
     /\ ret.value.tag = "value")
        => ret.value.owner = ret.task

\* C2: while one request is processed, req.post() is awaited at most once,
\* however many parse_form calls the request makes.
C2_PostAwaitedAtMostOnce == \A r \in Requests : postAwaits[r] <= 1

\* C3: while one request is processed, req.json() is awaited at most once,
\* however many parse_json calls the request makes and whatever the body
\* holds (an object, null, nothing).
C3_JsonAwaitedAtMostOnce == \A r \in Requests : jsonAwaits[r] <= 1

\* C4: parse_json on a request whose body is empty returns the missing
\* sentinel for every field name and never raises a decode error.
C4_EmptyBodyIsMissing ==
    (ret.method = "parse_json" /\ req[ret.task].body = "")
        => (ret.outcome = "return" /\ ret.value = missing)

\* C5: parse_json on a request whose content type is not a JSON content
\* type returns the missing sentinel for every field name, does not await
\* req.json() and leaves the cache unchanged.
C5_NonJsonIsMissing ==
    [][\A r \in Requests :
          (~is_json_request(r) /\ calls'[r] = calls[r] + 1
              /\ (pc'[r] = "await_json" \/ EndsAtOnce(r, "parse_json")))
            => (/\ ret'.outcome = "return"
                /\ ret'.value = missing
                /\ pc'[r] = "idle"
                /\ jsonAwaits' = jsonAwaits
                /\ cache' = cache)]_vars

\* json.dumps(error.messages) for the validation failures of the model,
\* written out.
ExpectedJson(messages) ==
    CASE messages = << >> -> "{}"
      [] messages = << <<"name", <<"Missing data for required field.">> >> >> ->
            "{\"name\": [\"Missing data for required field.\"]}"
      [] OTHER ->
            "{\"age\": [\"Not a valid integer.\", \"Too small.\"], \"name\": [\"Too long.\"]}"

\* The status code a handle_error call was given: error_status_code, or
\* 422 when none was given.
GivenStatus ==
    IF raised.error_status_code = None THEN 422 ELSE raised.error_status_code.v

\* C6: handle_error called with a status code that has an entry in
\* exception_map raises an HTTP exception with that status code, the JSON
\* encoding of the failure's messages as body, content type
\* application/json and the given headers.
C6_RaisesRegisteredClass ==
    (raised.exc # "" /\ GivenStatus \in DOMAIN exception_map)
        => (/\ SubclassName(raised.exc, "HTTPException")
            /\ raised.exc = exception_map[GivenStatus].name
            /\ raised.status = GivenStatus
            /\ raised.body = [tag |-> "bytes",
                              data |-> ExpectedJson(raised.error.messages)]
            /\ raised.content_type = "application/json"
            /\ raised.headers = raised.error_headers)

\* C6 witness: a call with the registered code 410, headers and two
\* failing fields has raised.
C6_Witness ==
    /\ raised.exc = "HTTPLegacyGone"
    /\ raised.error_status_code = Num(410)
    /\ raised.error_headers # None
    /\ Len(raised.error.messages) = 2

\* C7: handle_error called with a status code that has no entry in
\* exception_map raises a LookupError, for every validation failure.
C7_UnregisteredIsLookupError ==
    (/\ raised.exc # ""
     /\ raised.error_status_code # None
     /\ raised.error_status_code.v \notin DOMAIN exception_map)
        => raised.exc = "LookupError"

\* C8: after the registration, every exported HTTP exception class with a
\* status code c has an entry under c, and the class stored under every
\* key has that key as its status code, for every order of __all__.
C8_EveryStatusRegistered ==
    Registered =>
        /\ \A i \in DOMAIN all_ :
              (/\ issubclass(all_[i], Class("HTTPException"))
               /\ StatusCodeOf(all_[i].name) # None)
                  => StatusCodeOf(all_[i].name).v \in DOMAIN exception_map
        /\ \A c \in DOMAIN exception_map :
              StatusCodeOf(exception_map[c].name) = Num(c)

\* C8 witness: the registration is over, three classes shared the code
\* 410 and the framework's own 422 class replaced the module's.
C8_Witness ==
    /\ Registered
    /\ Len(all_) > 0
    /\ exception_map[410] = Class("HTTPGoneForever")
    /\ exception_map[422] = Class("web_exceptions.HTTPUnprocessableEntity")

\* C9: parse_files raises NotImplementedError whatever the request, the
\* field name and the cache hold; it reads nothing of the request and
\* leaves the cache as it is.
C9_ParseFilesAlwaysRaises ==
    [][\A r \in Requests :
          EndsAtOnce(r, "parse_files")
            => (/\ ret'.outcome = "raise"
                /\ ret'.exc = "NotImplementedError"
                /\ ret'.reads = {}
                /\ pc'[r] = "raised"
                /\ cache' = cache
                /\ postAwaits' = postAwaits
                /\ jsonAwaits' = jsonAwaits)]_vars

\* C9 witness: parse_files has raised while the cache held both bodies of
\* a request.
C9_Witness ==
    /\ ret.method = "parse_files"
    /\ ret.outcome = "raise"
    /\ DOMAIN cache = {"post", "json"}

\* C10: a field retrieval returns a value or the sentinel, or raises a
\* framework HTTP error, or raises the hard failure of file parsing or of
\* a missing registration; no other exception escapes.
C10_ThreeOutcomesOnly ==
    \/ ret.outcome \in {"none", "return"}
    \/ /\ ret.outcome = "raise"
       /\ ret.exc \in {"HTTPException", "NotImplementedError", "LookupError"}

(***************************************************************************)
(* What holds of a request that is processed alone (SpecSolo)              *)
(***************************************************************************)
\* Alone, a request awaits req.post() at most once.
Solo_PostAwaitedAtMostOnce == C2_PostAwaitedAtMostOnce

\* Alone, parse_json on an empty body returns the sentinel.
Solo_EmptyBodyIsMissing == C4_EmptyBodyIsMissing

\* Alone, parse_json on a non-JSON request returns the sentinel without
\* decoding, and the returned values are the request's own.
Solo_NonJsonIsMissing ==
    /\ (ret.method = "parse_json" /\ ~is_json_request(ret.task))
          => (ret.outcome = "return" /\ ret.value = missing /\ "json" \notin ret.reads)
    /\ \A r \in Requests : ~is_json_request(r) => jsonAwaits[r] = 0
    /\ (ret.outcome = "return" /\ ret.value.tag = "value") => ret.value.owner = ret.task

=============================================================================
